---- MODULE Spec2Model ----
(***************************************************************************)
(* Model of pydantic_cryptography.x509.name: NameAttributeModel and        *)
(* NameModel, their validators and their conversions to and from the       *)
(* native x509 objects.                                                    *)
(*                                                                         *)
(* Text is modelled as a sequence of one-character strings, bytes as a     *)
(* sequence of 0..255, an ObjectIdentifier handle as its sequence of arcs. *)
(* All characters of the model are ASCII.  The primitives of cryptography, *)
(* pydantic and the standard library are modelled by their behaviour on    *)
(* the inputs of the model; an OID text is valid when it is two or more    *)
(* arcs of digits without leading zeros, joined by dots.                   *)
(*                                                                         *)
(* An operator that reads an intermediate result several times takes it    *)
(* as a parameter of a second operator, named after the step it finishes.  *)
(***************************************************************************)
EXTENDS Integers, Sequences, FiniteSets, TLC

(***************************************************************************)
(* Bounds of the model.                                                    *)
(***************************************************************************)
\* longest attribute list handed to NameModel
MaxAttrs == 4
\* longest text over B64TestChars tried as a value
MaxB64Len == 4
\* longest byte string carried by a native unique identifier
MaxBytes == 2
\* short value lengths 0..MaxShort tried beside the lengths around the limit
MaxShort == 3
\* longest list of RFC4514 components, or native attributes, tried as a name
MaxRdns == 2

(***************************************************************************)
(* Generic helpers.                                                        *)
(***************************************************************************)
\* all sequences over S of length 0..n
SeqsUpTo(S, n) == UNION {[1..k -> S] : k \in 0..n}

\* the text made of n copies of character c
Rep(c, n) == [i \in 1..n |-> c]

RECURSIVE ConcatRange(_, _, _)
\* concatenation of ss[lo..hi], by halves
ConcatRange(ss, lo, hi) ==
    IF lo > hi THEN <<>>
    ELSE IF lo = hi THEN ss[lo]
    ELSE ConcatRange(ss, lo, (lo + hi) \div 2) \o ConcatRange(ss, (lo + hi) \div 2 + 1, hi)

\* concatenation of a sequence of sequences
Concat(ss) == ConcatRange(ss, 1, Len(ss))

RECURSIVE Join(_, _)
\* sep.join(parts)
Join(parts, sep) ==
    IF parts = <<>> THEN <<>>
    ELSE IF Len(parts) = 1 THEN parts[1]
    ELSE parts[1] \o sep \o Join(Tail(parts), sep)

Reverse(s) == [i \in 1..Len(s) |-> s[Len(s) + 1 - i]]

\* the least element of a non-empty set of integers
Min(S) == CHOOSE i \in S : \A j \in S : i <= j

Digits == <<"0", "1", "2", "3", "4", "5", "6", "7", "8", "9">>

IsDigit(c) == \E i \in 1..10 : Digits[i] = c

DigitValue(c) == (CHOOSE i \in 1..10 : Digits[i] = c) - 1

RECURSIVE Decimal(_)
\* str(n) for n >= 0, as text
Decimal(n) == IF n < 10 THEN <<Digits[n + 1]>>
              ELSE Decimal(n \div 10) \o <<Digits[(n % 10) + 1]>>

RECURSIVE ParseDecimal(_, _)
\* int(text) of a text of digits, acc the value read so far
ParseDecimal(s, acc) ==
    IF s = <<>> THEN acc ELSE ParseDecimal(Tail(s), acc * 10 + DigitValue(Head(s)))

\* position of the first character of s at or after pos that is in cs,
\* Len(s) + 1 when there is none
Find(s, pos, cs) == Min({i \in pos..Len(s) : s[i] \in cs} \cup {Len(s) + 1})

RECURSIVE SplitAt(_, _, _, _)
\* the parts of s from position pos on, cut at every sep; q is the position
\* of the next sep
SplitAt(s, sep, pos, q) ==
    IF q > Len(s) THEN <<SubSeq(s, pos, Len(s))>>
    ELSE <<SubSeq(s, pos, q - 1)>> \o SplitAt(s, sep, q + 1, Find(s, q + 1, {sep}))

\* text.split(sep) for a one-character sep
Split(s, sep) == SplitAt(s, sep, 1, Find(s, 1, {sep}))

(***************************************************************************)
(* Results and exceptions.                                                 *)
(***************************************************************************)
None == [none |-> TRUE]

Ok(v) == [ok |-> TRUE, val |-> v, errors |-> <<>>]

\* a raised exception: its class and its message (the parts of the f-string)
Raise(cls, msg) == [ok |-> FALSE, val |-> None, errors |-> <<[exc |-> cls, msg |-> msg]>>]

\* pydantic's ValidationError: a list of error records
Invalid(errs) == [ok |-> FALSE, val |-> None, errors |-> errs]

\* a failed result is an exception that is no ValidationError
IsRaised(r) == ~r.ok /\ "exc" \in DOMAIN r.errors[1]

\* pydantic's record of a ValueError raised by a validator at location loc
ValueErrorAt(loc, msg) ==
    [type |-> "value_error", loc |-> loc, msg |-> <<"Value error, ">> \o msg, ctx |-> msg]

\* pydantic's record of a type error at location loc
TypeErrorAt(type, loc) ==
    [type |-> type, loc |-> loc, msg |-> <<type>>, ctx |-> <<>>]

\* the result r of a validator, its ValueError turned into pydantic's record
Wrapped(r, loc) == IF r.ok THEN r ELSE Invalid(<<ValueErrorAt(loc, r.errors[1].msg)>>)

\* the first failure among results, all of which are results of the same call
FirstFailure(rs) == rs[Min({i \in 1..Len(rs) : ~rs[i].ok})]

(***************************************************************************)
(* Python values handed to the models.                                     *)
(***************************************************************************)
\* a str, an x509.ObjectIdentifier (nums: its arcs), a bytes (nums: its bytes)
PyStr(s) == [py |-> "str", chars |-> s, nums |-> <<>>]

PyOid(arcs) == [py |-> "ObjectIdentifier", chars |-> <<>>, nums |-> arcs]

PyBytes(b) == [py |-> "bytes", chars |-> <<>>, nums |-> b]

\* the data handed to NameAttributeModel: a dict, or (py = "NameAttribute") a
\* native attribute, whose fields from_attributes reads the same way
AttrData(py, oid, value, type) == [py |-> py, oid |-> oid, value |-> value, type |-> type]

Dict(oid, value) == AttrData("dict", oid, value, "")

(***************************************************************************)
(* cryptography.x509: object identifiers.                                  *)
(***************************************************************************)
COMMON_NAME == <<2, 5, 4, 3>>
COUNTRY_NAME == <<2, 5, 4, 6>>
JURISDICTION_COUNTRY_NAME == <<1, 3, 6, 1, 4, 1, 311, 60, 2, 1, 3>>
DOMAIN_COMPONENT == <<0, 9, 2342, 19200300, 100, 1, 25>>
ORGANIZATIONAL_UNIT_NAME == <<2, 5, 4, 11>>
ORGANIZATION_NAME == <<2, 5, 4, 10>>
STATE_OR_PROVINCE_NAME == <<2, 5, 4, 8>>
STREET_ADDRESS == <<2, 5, 4, 9>>
X500_UNIQUE_IDENTIFIER == <<2, 5, 4, 45>>

\* ObjectIdentifier.dotted_string
dotted_string(arcs) == Join([i \in 1..Len(arcs) |-> Decimal(arcs[i])], <<".">>)

\* one arc of a dotted string: digits, no leading zero except "0" itself
IsArcText(p) ==
    /\ Len(p) >= 1
    /\ \A i \in 1..Len(p) : IsDigit(p[i])
    /\ (Len(p) > 1 => p[1] # "0")

\* the handle of the arcs read from a text whose parts are all arcs
OidOfArcs(s, arcs) ==
    IF arcs[1] <= 2 /\ (arcs[1] < 2 => arcs[2] < 40) THEN Ok(arcs)
    ELSE Raise("ValueError", <<"Malformed OID: ">> \o s)

\* the handle of a text cut into parts at its dots
OidOfParts(s, parts) ==
    IF Len(parts) >= 2 /\ \A i \in 1..Len(parts) : IsArcText(parts[i])
    THEN OidOfArcs(s, [i \in 1..Len(parts) |-> ParseDecimal(parts[i], 0)])
    ELSE Raise("ValueError", <<"Malformed OID: ">> \o s)

\* x509.ObjectIdentifier(text): the handle, or ValueError for a malformed text
ObjectIdentifier(s) == OidOfParts(s, Split(s, "."))

(***************************************************************************)
(* base64 of the standard library.                                         *)
(***************************************************************************)
B64Alphabet ==
    << "A", "B", "C", "D", "E", "F", "G", "H", "I", "J", "K", "L", "M",
       "N", "O", "P", "Q", "R", "S", "T", "U", "V", "W", "X", "Y", "Z",
       "a", "b", "c", "d", "e", "f", "g", "h", "i", "j", "k", "l", "m",
       "n", "o", "p", "q", "r", "s", "t", "u", "v", "w", "x", "y", "z",
       "0", "1", "2", "3", "4", "5", "6", "7", "8", "9", "+", "/" >>

BASE64_PAD == "="

IsB64Char(c) == \E i \in 1..Len(B64Alphabet) : B64Alphabet[i] = c

\* table_a2b_base64: the 6-bit value of an alphabet character
B64Value(c) == (CHOOSE i \in 1..Len(B64Alphabet) : B64Alphabet[i] = c) - 1

B64Char(v) == B64Alphabet[v + 1]

RECURSIVE b64encode(_)
\* base64.b64encode(bytes).decode("ascii")
b64encode(b) ==
    IF Len(b) = 0 THEN <<>>
    ELSE IF Len(b) = 1 THEN
        << B64Char(b[1] \div 4), B64Char((b[1] % 4) * 16), BASE64_PAD, BASE64_PAD >>
    ELSE IF Len(b) = 2 THEN
        << B64Char(b[1] \div 4), B64Char((b[1] % 4) * 16 + b[2] \div 16),
           B64Char((b[2] % 16) * 4), BASE64_PAD >>
    ELSE
        << B64Char(b[1] \div 4), B64Char((b[1] % 4) * 16 + b[2] \div 16),
           B64Char((b[2] % 16) * 4 + b[3] \div 64), B64Char(b[3] % 64) >>
        \o b64encode(SubSeq(b, 4, Len(b)))

\* one data character of binascii.a2b_base64 (strict_mode off), v its value
A2bData(st, v) ==
    CASE st.quad_pos = 0 ->
            [st EXCEPT !.quad_pos = 1, !.leftchar = v, !.pads = 0]
      [] st.quad_pos = 1 ->
            [st EXCEPT !.quad_pos = 2, !.leftchar = v % 16, !.pads = 0,
                       !.bin = Append(@, st.leftchar * 4 + v \div 16)]
      [] st.quad_pos = 2 ->
            [st EXCEPT !.quad_pos = 3, !.leftchar = v % 4, !.pads = 0,
                       !.bin = Append(@, st.leftchar * 16 + v \div 4)]
      [] st.quad_pos = 3 ->
            [st EXCEPT !.quad_pos = 0, !.leftchar = 0, !.pads = 0,
                       !.bin = Append(@, st.leftchar * 64 + v)]

\* one character c of the scan of binascii.a2b_base64; nothing is read once
\* a complete pad sequence has ended the input
A2bStep(st, c) ==
    IF st.done THEN st
    ELSE IF c = BASE64_PAD THEN
        IF st.quad_pos >= 2
        THEN IF st.quad_pos + st.pads + 1 >= 4
             THEN [st EXCEPT !.done = TRUE]
             ELSE [st EXCEPT !.pads = @ + 1]
        ELSE st
    ELSE IF ~IsB64Char(c) THEN st
    ELSE A2bData(st, B64Value(c))

RECURSIVE A2bLoop(_, _, _, _)
\* the scan over s[lo..hi] from state st, left to right, by halves
A2bLoop(s, lo, hi, st) ==
    IF st.done \/ lo > hi THEN st
    ELSE IF lo = hi THEN A2bStep(st, s[lo])
    ELSE A2bLoop(s, (lo + hi) \div 2 + 1, hi, A2bLoop(s, lo, (lo + hi) \div 2, st))

\* the end of binascii.a2b_base64 in scan state st
A2bResult(st) ==
    IF st.done \/ st.quad_pos = 0 THEN Ok(st.bin)
    ELSE IF st.quad_pos = 1
    THEN Raise("binascii.Error", <<"Invalid base64-encoded string: number of data characters cannot be 1 more than a multiple of 4">>)
    ELSE Raise("binascii.Error", <<"Incorrect padding">>)

\* base64.b64decode(text): the bytes, or binascii.Error (a ValueError)
b64decode(s) ==
    A2bResult(A2bLoop(s, 1, Len(s), [quad_pos |-> 0, pads |-> 0, leftchar |-> 0,
                                     bin |-> <<>>, done |-> FALSE]))

(***************************************************************************)
(* cryptography.x509.NameAttribute.                                        *)
(***************************************************************************)
\* the upper limit of the common-name rule
CN_MAX_LENGTH == 64

\* _NAMEOID_LENGTH_LIMIT of cryptography, which validate_name_attribute mirrors
NativeLengthOk(oid, n) ==
    /\ (oid \in {COUNTRY_NAME, JURISDICTION_COUNTRY_NAME} => n = 2)
    /\ (oid = COMMON_NAME => (1 <= n /\ n <= CN_MAX_LENGTH))

\* x509.NameAttribute(oid=oid, value=value, _type=type); type "" is no _type
NameAttribute(oid, value, type) ==
    IF type = "BitString" /\ (oid # X500_UNIQUE_IDENTIFIER \/ value.py # "bytes")
    THEN Raise("TypeError", <<"value must be bytes for BitString">>)
    ELSE IF type # "BitString" /\ value.py # "str"
    THEN Raise("TypeError", <<"value argument must be a str">>)
    ELSE IF type # "BitString" /\ ~NativeLengthOk(oid, Len(value.chars))
    THEN Raise("ValueError", <<"Attribute's length must be within the limits">>)
    ELSE Ok(AttrData("NameAttribute", PyOid(oid), value,
                     IF type = "BitString" THEN "BitString" ELSE "Default"))

(***************************************************************************)
(* pydantic_cryptography.base.validators                                   *)
(***************************************************************************)
\* as oid_to_dotted_string_validator, but a str is taken for a handle too
oid_to_dotted_string_validator_Always(value) == PyStr(dotted_string(value.nums))

oid_to_dotted_string_validator(value) ==
    IF value.py = "ObjectIdentifier" THEN PyStr(dotted_string(value.nums)) ELSE value

\* as dotted_string_after_validator, but the ValueError of the primitive is
\* not caught and leaves as it is
dotted_string_after_validator_Uncaught(value) ==
    IF ObjectIdentifier(value).ok THEN Ok(value)
    ELSE Raise("ValueError", <<"Malformed OID: ">> \o value)

dotted_string_after_validator(value) ==
    IF ObjectIdentifier(value).ok THEN Ok(value)
    ELSE Raise("ValueError", value \o <<": Invalid object identifier">>)

(***************************************************************************)
(* pydantic_cryptography.x509.name: NameAttributeModel                     *)
(***************************************************************************)
MULTIPLE_OIDS == <<DOMAIN_COMPONENT, ORGANIZATIONAL_UNIT_NAME, STREET_ADDRESS>>

MULTIPLE_OID_STRINGS == [i \in 1..Len(MULTIPLE_OIDS) |-> dotted_string(MULTIPLE_OIDS[i])]

\* an instance of NameAttributeModel
AttrModel(oid, value) == [oid |-> oid, value |-> value]

\* as NameAttributeModel_parse_cryptography, but the bytes of a unique
\* identifier are not base64-encoded
NameAttributeModel_parse_cryptography_NoB64(data) == Ok(data)

\* NameAttributeModel.parse_cryptography (mode="before")
NameAttributeModel_parse_cryptography(data) ==
    IF data.py = "NameAttribute" /\ data.oid.nums = X500_UNIQUE_IDENTIFIER
    THEN IF data.value.py # "bytes"
         THEN Raise("TypeError", <<"a bytes-like object is required">>)
         ELSE Ok(Dict(PyStr(dotted_string(data.oid.nums)), PyStr(b64encode(data.value.nums))))
    ELSE Ok(data)

country_code_oids == {dotted_string(COUNTRY_NAME), dotted_string(JURISDICTION_COUNTRY_NAME)}

cn_oid == dotted_string(COMMON_NAME)

\* as validate_name_attribute, but a country code of fewer than 2 characters passes
validate_name_attribute_AtMostTwo(m) ==
    IF m.oid \in country_code_oids /\ Len(m.value) > 2
    THEN Raise("ValueError", m.value \o <<": Must have exactly two characters">>)
    ELSE IF m.oid = cn_oid /\ ~(1 <= Len(m.value) /\ Len(m.value) <= CN_MAX_LENGTH)
    THEN Raise("ValueError", cn_oid \o <<" length must be >= 1 and <= 64, but it was ">>
                                    \o Decimal(Len(m.value)))
    ELSE Ok(m)

\* as validate_name_attribute, but a common name one character too long passes
validate_name_attribute_OffByOne(m) ==
    IF m.oid \in country_code_oids /\ Len(m.value) # 2
    THEN Raise("ValueError", m.value \o <<": Must have exactly two characters">>)
    ELSE IF m.oid = cn_oid /\ ~(1 <= Len(m.value) /\ Len(m.value) <= CN_MAX_LENGTH + 1)
    THEN Raise("ValueError", cn_oid \o <<" length must be >= 1 and <= 64, but it was ">>
                                    \o Decimal(Len(m.value)))
    ELSE Ok(m)

\* NameAttributeModel.validate_name_attribute (mode="after")
validate_name_attribute(m) ==
    IF m.oid \in country_code_oids /\ Len(m.value) # 2
    THEN Raise("ValueError", m.value \o <<": Must have exactly two characters">>)
    ELSE IF m.oid = cn_oid /\ ~(1 <= Len(m.value) /\ Len(m.value) <= CN_MAX_LENGTH)
    THEN Raise("ValueError", cn_oid \o <<" length must be >= 1 and <= 64, but it was ">>
                                    \o Decimal(Len(m.value)))
    ELSE Ok(m)

\* the str check between the two validators of ObjectIdentifierType, on the
\* value v the before validator returned
DottedStringField(v, loc) ==
    IF v.py # "str" THEN Invalid(<<TypeErrorAt("string_type", loc)>>)
    ELSE Wrapped(dotted_string_after_validator(v.chars), loc)

\* the field oid: ObjectIdentifierType = Annotated[str, BeforeValidator, AfterValidator]
ObjectIdentifierType(input, loc) ==
    DottedStringField(oid_to_dotted_string_validator(input), loc)

\* the field value: str
StrField(input, loc) ==
    IF input.py = "str" THEN Ok(input.chars)
    ELSE Invalid(<<TypeErrorAt("string_type", loc)>>)

\* the model of the validated fields oid and value, handed to the after
\* validator; the errors of both fields when one failed
NameAttributeModel_fields(oid, value, loc) ==
    IF ~oid.ok \/ ~value.ok THEN Invalid(oid.errors \o value.errors)
    ELSE Wrapped(validate_name_attribute(AttrModel(oid.val, value.val)), loc)

\* the validation of the data the before validator returned
NameAttributeModel_after_before(before, loc) ==
    IF ~before.ok THEN before
    ELSE NameAttributeModel_fields(ObjectIdentifierType(before.val.oid, loc \o <<"oid">>),
                                   StrField(before.val.value, loc \o <<"value">>), loc)

\* validation of data as a NameAttributeModel, errors located under loc:
\* the before validator, the fields in their order, the after validator
NameAttributeModel_validate(data, loc) ==
    NameAttributeModel_after_before(NameAttributeModel_parse_cryptography(data), loc)

\* the native unique identifier of the decoded value
BitStringAttribute(oid, value) ==
    IF ~value.ok THEN value ELSE NameAttribute(oid, PyBytes(value.val), "BitString")

\* the native attribute of m, oid being x509.ObjectIdentifier(m.oid)
NameAttributeModel_native(m, oid) ==
    IF ~oid.ok THEN oid
    ELSE IF oid.val = X500_UNIQUE_IDENTIFIER
    THEN BitStringAttribute(oid.val, b64decode(m.value))
    ELSE NameAttribute(oid.val, PyStr(m.value), "")

\* NameAttributeModel.cryptography
NameAttributeModel_cryptography(m) == NameAttributeModel_native(m, ObjectIdentifier(m.oid))

(***************************************************************************)
(* cryptography.x509.Name                                                  *)
(***************************************************************************)
\* the data handed to NameModel: a list, a native Name (items: its
\* attributes in order) or a str
NameData(py, items, chars) == [py |-> py, items |-> items, chars |-> chars]

\* x509.Name(attributes)
Name(attributes) == NameData("Name", attributes, <<>>)

\* _NAME_TO_NAMEOID of the RFC4514 parser: the short names of the model
ShortNames == {"CN", "OU", "O", "ST", "C", "DC"}

NameToOid(key) ==
    CASE key = "CN" -> COMMON_NAME
      [] key = "OU" -> ORGANIZATIONAL_UNIT_NAME
      [] key = "O"  -> ORGANIZATION_NAME
      [] key = "ST" -> STATE_OR_PROVINCE_NAME
      [] key = "C"  -> COUNTRY_NAME
      [] key = "DC" -> DOMAIN_COMPONENT

\* the text of a short name
KeyText(n) ==
    CASE n = "CN" -> <<"C", "N">>
      [] n = "OU" -> <<"O", "U">>
      [] n = "O"  -> <<"O">>
      [] n = "ST" -> <<"S", "T">>
      [] n = "C"  -> <<"C">>
      [] n = "DC" -> <<"D", "C">>

\* the native attribute of the type text k and the value text v
Rfc4514Attribute(k, v, overrides) ==
    IF k \in DOMAIN overrides THEN NameAttribute(overrides[k], PyStr(v), "")
    ELSE IF \E n \in ShortNames : k = KeyText(n)
    THEN NameAttribute(NameToOid(CHOOSE n \in ShortNames : k = KeyText(n)), PyStr(v), "")
    ELSE Raise("ValueError", <<"Malformed DN">>)

\* one component "type=value" of an RFC4514 text, eq the position of its
\* first "="; overrides maps type texts to OIDs
Rfc4514Component(c, eq, overrides) ==
    IF eq > Len(c) THEN Raise("ValueError", <<"Malformed DN">>)
    ELSE Rfc4514Attribute(SubSeq(c, 1, eq - 1), SubSeq(c, eq + 1, Len(c)), overrides)

\* the Name of the parsed components: they come back reversed
Rfc4514Name(rdns) ==
    IF \E i \in 1..Len(rdns) : ~rdns[i].ok THEN FirstFailure(rdns)
    ELSE Ok(Name(Reverse([i \in 1..Len(rdns) |-> rdns[i].val])))

\* the components of a text cut at its commas
Rfc4514Parts(parts, overrides) ==
    Rfc4514Name([i \in 1..Len(parts) |->
                    Rfc4514Component(parts[i], Find(parts[i], 1, {"="}), overrides)])

\* x509.Name.from_rfc4514_string(text, attr_name_overrides), for texts
\* without escapes and multi-valued components
from_rfc4514_string(text, overrides) ==
    IF text = <<>> THEN Ok(Name(<<>>)) ELSE Rfc4514Parts(Split(text, ","), overrides)

(***************************************************************************)
(* pydantic_cryptography.x509.name: NameModel                              *)
(***************************************************************************)
NoContext == [py |-> "None", attr_name_overrides |-> <<>>]

Context(overrides) == [py |-> "dict", attr_name_overrides |-> overrides]

\* as NameModel_list_of, but the attributes of a Name are taken in reverse
NameModel_list_of_Reversed(parsed) ==
    IF ~parsed.ok THEN parsed
    ELSE IF parsed.val.py = "Name"
    THEN Ok(NameData("list", Reverse(parsed.val.items), <<>>))
    ELSE parsed

\* the end of parse_cryptography: list(data) for a Name, data as it is
\* for anything else
NameModel_list_of(parsed) ==
    IF ~parsed.ok THEN parsed
    ELSE IF parsed.val.py = "Name"
    THEN Ok(NameData("list", parsed.val.items, <<>>))
    ELSE parsed

\* NameModel.parse_cryptography (mode="before")
NameModel_parse_cryptography(data, context) ==
    NameModel_list_of(
        IF data.py = "str"
        THEN from_rfc4514_string(data.chars,
                                 IF context.py = "dict" THEN context.attr_name_overrides
                                 ELSE <<>>)
        ELSE Ok(data))

InTuple(x, tup) == \E i \in 1..Len(tup) : tup[i] = x

RECURSIVE validate_duplicates_loop_AnyOid(_, _, _)
\* as validate_duplicates_loop, but MULTIPLE_OID_STRINGS is not consulted
validate_duplicates_loop_AnyOid(root, i, seen) ==
    IF i > Len(root) THEN Ok(root)
    ELSE IF root[i].oid \in seen
    THEN Raise("ValueError", <<"Name attribute of type ">> \o root[i].oid
                             \o <<" must not occur more then once.">>)
    ELSE validate_duplicates_loop_AnyOid(root, i + 1, seen \cup {root[i].oid})

RECURSIVE validate_duplicates_loop_Last(_, _, _)
\* as validate_duplicates_loop, but a violation found later in the list
\* replaces the one found first
validate_duplicates_loop_Last(root, i, seen) ==
    IF i > Len(root) THEN Ok(root)
    ELSE IF /\ validate_duplicates_loop_Last(root, i + 1, seen \cup {root[i].oid}).ok
            /\ root[i].oid \in seen
            /\ ~InTuple(root[i].oid, MULTIPLE_OID_STRINGS)
    THEN Raise("ValueError", <<"Name attribute of type ">> \o root[i].oid
                             \o <<" must not occur more then once.">>)
    ELSE validate_duplicates_loop_Last(root, i + 1, seen \cup {root[i].oid})

RECURSIVE validate_duplicates_loop(_, _, _)
\* the for loop of validate_duplicates, at attribute i with the OIDs seen
validate_duplicates_loop(root, i, seen) ==
    IF i > Len(root) THEN Ok(root)
    ELSE IF root[i].oid \in seen /\ ~InTuple(root[i].oid, MULTIPLE_OID_STRINGS)
    THEN Raise("ValueError", <<"Name attribute of type ">> \o root[i].oid
                             \o <<" must not occur more then once.">>)
    ELSE validate_duplicates_loop(root, i + 1, seen \cup {root[i].oid})

\* NameModel.validate_duplicates (mode="after")
validate_duplicates(root) == validate_duplicates_loop(root, 1, {})

\* the root of the validated items rs: an exception of an item's validator
\* ends the validation, the validation errors of all items are collected
RootOfItems(rs) ==
    IF \E i \in 1..Len(rs) : IsRaised(rs[i])
    THEN rs[Min({i \in 1..Len(rs) : IsRaised(rs[i])})]
    ELSE IF \E i \in 1..Len(rs) : ~rs[i].ok
    THEN Invalid(Concat([i \in 1..Len(rs) |-> rs[i].errors]))
    ELSE Ok([i \in 1..Len(rs) |-> rs[i].val])

\* validation of the root: list[NameAttributeModel], every item under its index
RootField(items) ==
    RootOfItems([i \in 1..Len(items) |->
                    NameAttributeModel_validate(items[i], <<ToString(i - 1)>>)])

\* as NameModel_after_root, but the after validator is not run
NameModel_after_root_NoCheck(root) == root

\* the after validator on the validated root
NameModel_after_root(root) ==
    IF ~root.ok THEN root ELSE Wrapped(validate_duplicates(root.val), <<>>)

\* the validation of the data the before validator returned
NameModel_after_before(before) ==
    IF ~before.ok THEN Wrapped(before, <<>>)
    ELSE NameModel_after_root(RootField(before.val.items))

\* validation of data as a NameModel: the before validator, the root, the
\* after validator
NameModel_validate(data, context) ==
    NameModel_after_before(NameModel_parse_cryptography(data, context))

\* as NameOfAttributes, but the attributes are handed over last to first
NameOfAttributes_Reversed(attrs) ==
    IF \E i \in 1..Len(attrs) : ~attrs[i].ok THEN FirstFailure(attrs)
    ELSE Ok(Name(Reverse([i \in 1..Len(attrs) |-> attrs[i].val])))

\* x509.Name of the converted attributes; the first conversion that raised
NameOfAttributes(attrs) ==
    IF \E i \in 1..Len(attrs) : ~attrs[i].ok THEN FirstFailure(attrs)
    ELSE Ok(Name([i \in 1..Len(attrs) |-> attrs[i].val]))

\* NameModel.cryptography
NameModel_cryptography(root) ==
    NameOfAttributes([i \in 1..Len(root) |-> NameAttributeModel_cryptography(root[i])])

\* an int index or a slice start:stop; has* is FALSE for an omitted bound
IntItem(i) == [py |-> "int", start |-> i, stop |-> 0, hasStart |-> TRUE, hasStop |-> FALSE]

SliceItem(hasStart, start, hasStop, stop) ==
    [py |-> "slice", start |-> start, stop |-> stop, hasStart |-> hasStart, hasStop |-> hasStop]

\* a slice bound clamped into 0..n the way list slicing does
SliceBound(has, b, n, default) ==
    IF ~has THEN default
    ELSE IF b < 0 THEN (IF n + b < 0 THEN 0 ELSE n + b)
    ELSE IF b > n THEN n ELSE b

\* NameModel.__getitem__: self.root[item]
NameModel_getitem(root, item) ==
    IF item.py = "int"
    THEN IF item.start < -Len(root) \/ item.start >= Len(root)
         THEN Raise("IndexError", <<"list index out of range">>)
         ELSE Ok(root[(IF item.start < 0 THEN Len(root) + item.start ELSE item.start) + 1])
    ELSE Ok(SubSeq(root, SliceBound(item.hasStart, item.start, Len(root), 0) + 1,
                   SliceBound(item.hasStop, item.stop, Len(root), Len(root))))

\* NameModel.__len__
NameModel_len(root) == Len(root)

\* NameModel.__iter__, as the list it yields
NameModel_iter(root) == root

(***************************************************************************)
(* pydantic: model_dump_json and model_validate_json                       *)
(***************************************************************************)
\* the field names of NameAttributeModel
KEY_OID == <<"o", "i", "d">>

KEY_VALUE == <<"v", "a", "l", "u", "e">>

\* one character inside a JSON string
JsonEscape(c) ==
    CASE c = "\"" -> <<"\\", "\"">>
      [] c = "\\" -> <<"\\", "\\">>
      [] c = "\n" -> <<"\\", "n">>
      [] OTHER -> <<c>>

JsonString(s) == <<"\"">> \o Concat([i \in 1..Len(s) |-> JsonEscape(s[i])]) \o <<"\"">>

\* NameAttributeModel.model_dump_json()
NameAttributeModel_dump_json(m) ==
    <<"{">> \o JsonString(KEY_OID) \o <<":">> \o JsonString(m.oid) \o <<",">>
            \o JsonString(KEY_VALUE) \o <<":">> \o JsonString(m.value) \o <<"}">>

\* NameModel.model_dump_json()
NameModel_dump_json(root) ==
    <<"[">> \o Join([i \in 1..Len(root) |-> NameAttributeModel_dump_json(root[i])], <<",">>)
            \o <<"]">>

\* a parse step: the value read and the position after it
Parsed(v, pos) == [ok |-> TRUE, val |-> v, pos |-> pos]

ParseError == [ok |-> FALSE, val |-> None, pos |-> 0]

At(t, pos) == IF pos <= Len(t) THEN t[pos] ELSE ""

\* the character an escape sequence \c stands for
JsonUnescape(c) == IF c = "n" THEN "\n" ELSE c

RECURSIVE JsonStringBody(_, _, _)
\* the end of a run of plain characters at position q, run the characters
\* of the string read so far
JsonStringRun(t, q, run) ==
    IF q > Len(t) THEN ParseError
    ELSE IF t[q] = "\"" THEN Parsed(run, q + 1)
    ELSE IF t[q] = "\\" /\ At(t, q + 1) \in {"\"", "\\", "n"}
    THEN JsonStringBody(t, q + 2, Append(run, JsonUnescape(At(t, q + 1))))
    ELSE ParseError

\* the plain characters from pos up to q are taken at once
JsonStringFrom(t, pos, q, acc) == JsonStringRun(t, q, acc \o SubSeq(t, pos, q - 1))

\* the characters of a JSON string up to its closing quote
JsonStringBody(t, pos, acc) ==
    JsonStringFrom(t, pos, Find(t, pos, {"\"", "\\", "\n"}), acc)

ParseJsonString(t, pos) ==
    IF At(t, pos) = "\"" THEN JsonStringBody(t, pos + 1, <<>>) ELSE ParseError

RECURSIVE JsonMembers(_, _, _)
\* after a member: the next member, or the end of the object
JsonMemberEnd(t, pos, got) ==
    IF At(t, pos) = "," THEN JsonMembers(t, pos + 1, got)
    ELSE IF At(t, pos) = "}" THEN Parsed(got, pos + 1)
    ELSE ParseError

\* the value v read for the member key
JsonMemberValue(t, key, v, fields) ==
    IF ~v.ok THEN ParseError
    ELSE JsonMemberEnd(t, v.pos, [x \in DOMAIN fields \cup {key} |->
                                     IF x = key THEN v.val ELSE fields[x]])

\* the key k read for a member
JsonMemberKey(t, k, fields) ==
    IF ~k.ok \/ At(t, k.pos) # ":" THEN ParseError
    ELSE JsonMemberValue(t, k.val, ParseJsonString(t, k.pos + 1), fields)

\* the members "key":"string" of a JSON object, fields the ones read so far
JsonMembers(t, pos, fields) == JsonMemberKey(t, ParseJsonString(t, pos), fields)

\* a JSON object of string members
ParseJsonObject(t, pos) ==
    IF At(t, pos) # "{" THEN ParseError
    ELSE IF At(t, pos + 1) = "}" THEN Parsed(<<>>, pos + 2)
    ELSE JsonMembers(t, pos + 1, <<>>)

RECURSIVE JsonElements(_, _, _)
\* the element e read for an array
JsonElement(t, e, items) ==
    IF ~e.ok THEN ParseError
    ELSE IF At(t, e.pos) = "," THEN JsonElements(t, e.pos + 1, Append(items, e.val))
    ELSE IF At(t, e.pos) = "]" THEN Parsed(Append(items, e.val), e.pos + 1)
    ELSE ParseError

\* the elements of a JSON array of objects, items the ones read so far
JsonElements(t, pos, items) == JsonElement(t, ParseJsonObject(t, pos), items)

ParseJsonArray(t, pos) ==
    IF At(t, pos) # "[" THEN ParseError
    ELSE IF At(t, pos + 1) = "]" THEN Parsed(<<>>, pos + 2)
    ELSE JsonElements(t, pos + 1, <<>>)

\* the data a parsed JSON object is for NameAttributeModel; a missing field
\* arrives as a non-string and fails the field's validation
JsonAttrData(fields) ==
    Dict(IF KEY_OID \in DOMAIN fields THEN PyStr(fields[KEY_OID]) ELSE PyBytes(<<>>),
         IF KEY_VALUE \in DOMAIN fields THEN PyStr(fields[KEY_VALUE]) ELSE PyBytes(<<>>))

\* the validation of the parsed JSON object o of a text of length n
NameAttributeModel_of_json(o, n) ==
    IF ~o.ok \/ o.pos # n + 1 THEN Invalid(<<TypeErrorAt("json_invalid", <<>>)>>)
    ELSE NameAttributeModel_validate(JsonAttrData(o.val), <<>>)

\* NameAttributeModel.model_validate_json(text)
NameAttributeModel_validate_json(t) == NameAttributeModel_of_json(ParseJsonObject(t, 1), Len(t))

\* the validation of the parsed JSON array a of a text of length n
NameModel_of_json(a, n) ==
    IF ~a.ok \/ a.pos # n + 1 THEN Invalid(<<TypeErrorAt("json_invalid", <<>>)>>)
    ELSE NameModel_validate(
             NameData("list", [i \in 1..Len(a.val) |-> JsonAttrData(a.val[i])], <<>>),
             NoContext)

\* NameModel.model_validate_json(text)
NameModel_validate_json(t) == NameModel_of_json(ParseJsonArray(t, 1), Len(t))

(***************************************************************************)
(* The inputs of the model.                                                *)
(***************************************************************************)
KnownOids == {COMMON_NAME, COUNTRY_NAME, JURISDICTION_COUNTRY_NAME, DOMAIN_COMPONENT,
              ORGANIZATIONAL_UNIT_NAME, ORGANIZATION_NAME, X500_UNIQUE_IDENTIFIER}

MalformedOids == {<<"f", "o", "o">>, <<"2", ".", "5", ".", "4", ".", "0", "3">>, <<"2">>, <<>>}

\* an OID as a handle, as its dotted string, and malformed strings
OidInputs == {PyOid(o) : o \in KnownOids} \cup {PyStr(dotted_string(o)) : o \in KnownOids}
             \cup {PyStr(s) : s \in MalformedOids}

LenValues == {Rep("x", n) : n \in (0..MaxShort) \cup
                  {CN_MAX_LENGTH - 1, CN_MAX_LENGTH, CN_MAX_LENGTH + 1}}

SpecialValues == {<<"a", "\"", "b">>, <<"\\">>, <<"a", "\n", "b", "\\", "n">>}

B64TestChars == {"Y", "Q", "R", "="}

B64Values == SeqsUpTo(B64TestChars, MaxB64Len)
             \cup {<<"Y", "Q", "=", "=", "\n">>, <<"Y", " ", "Q", "=", "=">>, <<"Y", "Q", "=", "=", "Y", "Q">>, <<"Z", "X", "h", "h", "b", "X", "B", "s", "Z", "S", "5", "j", "b", "2", "0", "=">>}

B64Oids == {PyOid(X500_UNIQUE_IDENTIFIER), PyStr(dotted_string(X500_UNIQUE_IDENTIFIER)),
            PyStr(dotted_string(ORGANIZATIONAL_UNIT_NAME))}

AttrInputs ==
    {Dict(o, PyStr(v)) : o \in OidInputs, v \in LenValues \cup SpecialValues}
    \cup {Dict(o, PyStr(v)) : o \in B64Oids, v \in B64Values}
    \cup {Dict(PyStr(dotted_string(COMMON_NAME)), PyOid(COMMON_NAME))}

TestBytes == {0, 97, 255}

\* native attributes: text values, and unique identifiers with bit strings
NativeAttrs ==
    UNION {{NameAttribute(o, PyStr(v), "").val :
               v \in {w \in LenValues \cup {<<"A", "T">>} : NativeLengthOk(o, Len(w))}} :
           o \in KnownOids}
    \cup {NameAttribute(X500_UNIQUE_IDENTIFIER, PyBytes(b), "BitString").val :
            b \in SeqsUpTo(TestBytes, MaxBytes)}

\* the attribute specifications lists are drawn from
AttrPool ==
    { Dict(PyStr(dotted_string(COMMON_NAME)), PyStr(<<"a">>)),
      Dict(PyOid(ORGANIZATION_NAME), PyStr(<<"x">>)),
      Dict(PyStr(dotted_string(ORGANIZATIONAL_UNIT_NAME)), PyStr(<<"u">>)),
      Dict(PyStr(dotted_string(X500_UNIQUE_IDENTIFIER)), PyStr(<<"Y", "R", "=", "=">>)),
      Dict(PyStr(dotted_string(COUNTRY_NAME)), PyStr(<<"A", "T", "X">>)) }

ListInputs == {NameData("list", l, <<>>) : l \in SeqsUpTo(AttrPool, MaxAttrs)}

\* attribute specifications that fail on their own (a malformed OID, a
\* country code of 3 characters, an empty common name) beside a valid one
ErrorPool ==
    { Dict(PyStr(dotted_string(COMMON_NAME)), PyStr(<<"a">>)),
      Dict(PyStr(<<"f", "o", "o">>), PyStr(<<"v">>)),
      Dict(PyOid(COUNTRY_NAME), PyStr(<<"A", "T", "X">>)),
      Dict(PyStr(dotted_string(COMMON_NAME)), PyStr(<<>>)) }

\* the short lists drawn from them
ErrorLists == {NameData("list", l, <<>>) : l \in SeqsUpTo(ErrorPool, MaxShort)}

NativePool ==
    { NameAttribute(COMMON_NAME, PyStr(<<"a">>), "").val,
      NameAttribute(ORGANIZATIONAL_UNIT_NAME, PyStr(<<"u">>), "").val,
      NameAttribute(X500_UNIQUE_IDENTIFIER, PyBytes(<<97>>), "BitString").val }

NameInputs == {Name(l) : l \in SeqsUpTo(NativePool, MaxRdns)}

\* the distinguished name of test_iterable, component by component
TestComponents == << <<"C", "N", "=", "e", "x", "a", "m", "p", "l", "e", ".", "c", "o", "m">>,
                     <<"O", "U", "=", "E", "x", "a", "m", "p", "l", "e", "O", "r", "g", "U", "n", "i", "t">>,
                     <<"O", "=", "E", "x", "a", "m", "p", "l", "e", "O", "r", "g">>,
                     <<"S", "T", "=", "V", "i", "e", "n", "n", "a">>,
                     <<"C", "=", "A", "T">> >>

RfcPool == {TestComponents[i] : i \in 1..Len(TestComponents)}
           \cup {<<"X", "=", "a">>, <<"C", "=", "A", "T", "X">>, <<"C", "N">>}

RfcTexts == {Join(l, <<",">>) : l \in SeqsUpTo(RfcPool, MaxRdns)}
            \cup {Join(SubSeq(TestComponents, i, Len(TestComponents)), <<",">>) :
                    i \in 1..Len(TestComponents)}

Contexts == {NoContext, Context(<<>>), Context([k \in {<<"X">>} |-> STREET_ADDRESS])}

\* the indices and slices handed to __getitem__
ItemInputs == {IntItem(i) : i \in (-2)..(MaxAttrs + 1)}
              \cup {SliceItem(TRUE, i, FALSE, 0) : i \in {-1, 1, Len(TestComponents) - 1, MaxAttrs}}
              \cup {SliceItem(FALSE, 0, TRUE, i) : i \in {-1, 2}}
              \cup {SliceItem(FALSE, 0, FALSE, 0), SliceItem(TRUE, 1, TRUE, 3)}

\* the values assigned to a field after construction
AssignValues == {<<"A", "T", "X">>, dotted_string(COMMON_NAME)}

FieldNames == {"oid", "value"}

\* the attributes appended to a root after construction
AppendValues == {AttrModel(dotted_string(COMMON_NAME), <<"z">>)}

\* the native attributes handed to model_validate; the last one is a unique
\* identifier that carries text
NativeAttrInputs ==
    NativeAttrs \cup {AttrData("NameAttribute", PyOid(X500_UNIQUE_IDENTIFIER),
                               PyStr(<<"a">>), "Default")}

(***************************************************************************)
(* The state: the instance at hand and the last operation made.            *)
(***************************************************************************)
VARIABLES self, last

vars == <<self, last>>

\* no instance: construction failed, or nothing was constructed yet
NoInstance == [cls |-> "None", val |-> <<>>, assigned |-> FALSE]

\* a freshly constructed instance of cls holding val (the fields of an
\* attribute, the root of a name); assigned: a field or the root was
\* assigned to since
Instance(cls, val) == [cls |-> cls, val |-> val, assigned |-> FALSE]

Constructed(cls, res) == IF res.ok THEN Instance(cls, res.val) ELSE NoInstance

Op(op, input, res) == [op |-> op, input |-> input, res |-> res]

Init ==
    /\ self = NoInstance
    /\ last = Op("init", None, Ok(None))

\* nothing was constructed yet: every behaviour follows one instance from
\* its construction on
Fresh == last.op = "init"

\* the operations that construct an instance, and those that assign to it
Constructors == {"NameAttributeModel", "NameAttributeModel.model_validate", "NameModel",
                 "NameModel.model_validate", "NameModel.model_validate_str"}

Assignments == {"setattr", "setitemattr", "root.append"}

\* the instance is as its construction or its assignment left it: every
\* other operation is made from there, and the model follows an instance up
\* to its first assignment
AtRest == last.op \in Constructors \cup Assignments

\* the construction op of an instance of cls from input ended with res
Construct(op, cls, input, res) ==
    /\ self' = Constructed(cls, res)
    /\ last' = Op(op, input, res)

\* NameAttributeModel(oid=..., value=...)
NewNameAttributeModel ==
    /\ Fresh
    /\ \E data \in AttrInputs :
        Construct("NameAttributeModel", "NameAttributeModel", data,
                  NameAttributeModel_validate(data, <<>>))

\* NameAttributeModel.model_validate(native attribute)
ValidateNameAttribute ==
    /\ Fresh
    /\ \E data \in NativeAttrInputs :
        Construct("NameAttributeModel.model_validate", "NameAttributeModel", data,
                  NameAttributeModel_validate(data, <<>>))

\* NameModel([...])
NewNameModel ==
    /\ Fresh
    /\ \E data \in ListInputs \cup ErrorLists :
        Construct("NameModel", "NameModel", data, NameModel_validate(data, NoContext))

\* NameModel.model_validate(native Name)
ValidateName ==
    /\ Fresh
    /\ \E data \in NameInputs :
        Construct("NameModel.model_validate", "NameModel", data,
                  NameModel_validate(data, NoContext))

\* NameModel.model_validate(text, context=...)
ValidateRfc4514 ==
    /\ Fresh
    /\ \E text \in RfcTexts, context \in Contexts :
        Construct("NameModel.model_validate_str", "NameModel",
                  [text |-> text, context |-> context],
                  NameModel_validate(NameData("str", <<>>, text), context))

\* m.cryptography of the instance m
cryptography(m) ==
    IF m.cls = "NameModel" THEN NameModel_cryptography(m.val)
    ELSE NameAttributeModel_cryptography(m.val)

\* self.cryptography
Cryptography ==
    /\ AtRest
    /\ self.cls # "None"
    /\ last' = Op("cryptography", None, cryptography(self))
    /\ UNCHANGED self

\* type(m).model_validate(native), nothing when the conversion raised
model_validate(m, native) ==
    IF ~native.ok THEN native
    ELSE IF m.cls = "NameModel" THEN NameModel_validate(native.val, NoContext)
    ELSE NameAttributeModel_validate(native.val, <<>>)

\* the round trip through the native object
NativeRoundTripOf(native) ==
    last' = Op("native_round_trip", native, model_validate(self, native))

\* model_class.model_validate(self.cryptography), as assert_cryptography_model does
NativeRoundTrip ==
    /\ AtRest
    /\ self.cls # "None"
    /\ NativeRoundTripOf(cryptography(self))
    /\ UNCHANGED self

\* m.model_dump_json() of the instance m
model_dump_json(m) ==
    IF m.cls = "NameModel" THEN NameModel_dump_json(m.val)
    ELSE NameAttributeModel_dump_json(m.val)

\* type(m).model_validate_json(text)
model_validate_json(m, text) ==
    IF m.cls = "NameModel" THEN NameModel_validate_json(text)
    ELSE NameAttributeModel_validate_json(text)

\* the round trip through the JSON text
JsonRoundTripOf(text) ==
    last' = Op("json_round_trip", text, model_validate_json(self, text))

\* model_class.model_validate_json(self.model_dump_json())
JsonRoundTrip ==
    /\ AtRest
    /\ self.cls # "None"
    /\ JsonRoundTripOf(model_dump_json(self))
    /\ UNCHANGED self

\* self.oid, self.value
GetField ==
    /\ AtRest
    /\ self.cls = "NameAttributeModel"
    /\ \E f \in FieldNames :
        last' = Op("getattr", f, Ok(IF f = "oid" THEN self.val.oid ELSE self.val.value))
    /\ UNCHANGED self

\* self.root
GetRoot ==
    /\ AtRest
    /\ self.cls = "NameModel"
    /\ last' = Op("root", None, Ok(self.val))
    /\ UNCHANGED self

\* len(self)
GetLen ==
    /\ AtRest
    /\ self.cls = "NameModel"
    /\ last' = Op("len", None, Ok(NameModel_len(self.val)))
    /\ UNCHANGED self

\* list(self)
Iterate ==
    /\ AtRest
    /\ self.cls = "NameModel"
    /\ last' = Op("iter", None, Ok(NameModel_iter(self.val)))
    /\ UNCHANGED self

\* self[item]
GetItem ==
    /\ AtRest
    /\ self.cls = "NameModel"
    /\ \E item \in ItemInputs : last' = Op("getitem", item, NameModel_getitem(self.val, item))
    /\ UNCHANGED self

\* the attribute m with its field f set to v
WithField(m, f, v) == IF f = "oid" THEN [m EXCEPT !.oid = v] ELSE [m EXCEPT !.value = v]

\* self.oid = v, self.value = v: the model is neither frozen nor validates
\* assignments, so the field is set as given
SetField ==
    /\ AtRest
    /\ self.cls = "NameAttributeModel"
    /\ ~self.assigned
    /\ \E f \in FieldNames, v \in AssignValues :
        /\ self' = [self EXCEPT !.val = WithField(@, f, v), !.assigned = TRUE]
        /\ last' = Op("setattr", [field |-> f, value |-> v], Ok(None))

\* self[i].oid = v, self[i].value = v: __getitem__ hands out the attribute
\* the root holds, not a copy
SetItemField ==
    /\ AtRest
    /\ self.cls = "NameModel"
    /\ ~self.assigned
    /\ \E i \in 1..Len(self.val), f \in FieldNames, v \in AssignValues :
        /\ self' = [self EXCEPT !.val[i] = WithField(@, f, v), !.assigned = TRUE]
        /\ last' = Op("setitemattr", [index |-> i - 1, field |-> f, value |-> v], Ok(None))

\* self.root.append(attribute): root hands out the list the model holds
RootAppend ==
    /\ AtRest
    /\ self.cls = "NameModel"
    /\ ~self.assigned
    /\ \E a \in AppendValues :
        /\ self' = [self EXCEPT !.val = Append(@, a), !.assigned = TRUE]
        /\ last' = Op("root.append", a, Ok(None))

Next ==
    \/ NewNameAttributeModel
    \/ ValidateNameAttribute
    \/ NewNameModel
    \/ ValidateName
    \/ ValidateRfc4514
    \/ Cryptography
    \/ NativeRoundTrip
    \/ JsonRoundTrip
    \/ GetField
    \/ GetRoot
    \/ GetLen
    \/ Iterate
    \/ GetItem
    \/ SetField
    \/ SetItemField
    \/ RootAppend

Spec == Init /\ [][Next]_vars

(***************************************************************************)
(* Properties.                                                             *)
(***************************************************************************)
\* the dotted string of the OID an attribute specification names
SpecOid(d) == IF d.oid.py = "ObjectIdentifier" THEN dotted_string(d.oid.nums) ELSE d.oid.chars

\* the OIDs that may repeat in a name: domain component, organizational
\* unit name, street address
AllowList == {<<"0", ".", "9", ".", "2", "3", "4", "2", ".", "1", "9", "2", "0", "0", "3", "0", "0", ".", "1", "0", "0", ".", "1", ".", "2", "5">>, <<"2", ".", "5", ".", "4", ".", "1", "1">>, <<"2", ".", "5", ".", "4", ".", "9">>}

CountryCodeOids == {<<"2", ".", "5", ".", "4", ".", "6">>, <<"1", ".", "3", ".", "6", ".", "1", ".", "4", ".", "1", ".", "3", "1", "1", ".", "6", "0", ".", "2", ".", "1", ".", "3">>}

CommonNameOid == <<"2", ".", "5", ".", "4", ".", "3">>

UniqueIdentifierOid == <<"2", ".", "5", ".", "4", ".", "4", "5">>

\* some OID outside the allow-list occurs more than once in oids
RepeatsForbidden(oids) ==
    \E i, j \in 1..Len(oids) : i < j /\ oids[i] = oids[j] /\ oids[i] \notin AllowList

\* the result is the single error of a validator at loc with the message text
FailsWith(res, loc, text) ==
    /\ ~res.ok
    /\ Len(res.errors) = 1
    /\ res.errors[1].type = "value_error"
    /\ res.errors[1].loc = loc
    /\ res.errors[1].ctx = text
    /\ res.errors[1].msg = <<"Value error, ">> \o text

\* the message of the DuplicateAttribute error naming oid
DuplicateMessage(oid) ==
    <<"Name attribute of type ">> \o oid \o <<" must not occur more then once.">>

\* the result is a DuplicateAttribute error naming one of oids
DuplicateAttribute(res, oids) ==
    \E i \in 1..Len(oids) : FailsWith(res, <<>>, DuplicateMessage(oids[i]))

\* every specification of the list makes a NameAttributeModel on its own
IndividuallyValid(items) ==
    \A i \in 1..Len(items) : NameAttributeModel_validate(items[i], <<>>).ok

OidsOfSpecs(items) == [i \in 1..Len(items) |-> SpecOid(items[i])]

OidsOfRoot(root) == [i \in 1..Len(root) |-> root[i].oid]

\* C1: for a list of individually valid attribute specifications, NameModel
\* fails with a DuplicateAttribute error if and only if some OID outside the
\* allow-list occurs more than once, and succeeds otherwise; a constructed
\* NameModel holds no OID outside the allow-list twice.
C1_DuplicateIffForbiddenRepeat ==
    /\ (last.op = "NameModel" /\ IndividuallyValid(last.input.items))
       => /\ DuplicateAttribute(last.res, OidsOfSpecs(last.input.items))
               <=> RepeatsForbidden(OidsOfSpecs(last.input.items))
          /\ last.res.ok <=> ~RepeatsForbidden(OidsOfSpecs(last.input.items))
          /\ last.res.ok => self.val = [i \in 1..Len(last.input.items) |->
                   AttrModel(SpecOid(last.input.items[i]), last.input.items[i].value.chars)]
    /\ (self.cls = "NameModel" /\ ~self.assigned) => ~RepeatsForbidden(OidsOfRoot(self.val))

\* a list that repeats an allow-listed OID and an OID outside the allow-list
\* was refused
C1_Witness ==
    /\ last.op = "NameModel"
    /\ IndividuallyValid(last.input.items)
    /\ DuplicateAttribute(last.res, OidsOfSpecs(last.input.items))
    /\ \E i, j \in 1..Len(last.input.items) :
          /\ i < j
          /\ SpecOid(last.input.items[i]) = SpecOid(last.input.items[j])
          /\ SpecOid(last.input.items[i]) \in AllowList

\* a list that repeats an allow-listed OID three times was accepted
C1_WitnessRepeat ==
    /\ last.op = "NameModel"
    /\ last.res.ok
    /\ \E i, j, k \in 1..Len(self.val) :
          /\ i < j /\ j < k
          /\ self.val[i].oid = self.val[j].oid /\ self.val[j].oid = self.val[k].oid

\* the construction NameAttributeModel(oid=..., value=<str>) just made
IsAttributeConstruction == last.op = "NameAttributeModel" /\ last.input.value.py = "str"

\* the same specification with its OID as the dotted string
WithDottedOid(d) == Dict(PyStr(SpecOid(d)), d.value)

\* C2: NameAttributeModel with the OID country-name or
\* jurisdiction-country-name succeeds exactly when the value has 2
\* characters; any other length fails with "<value>: Must have exactly two
\* characters"; the result is the same for a handle and for its dotted string.
C2_CountryCodeLength ==
    (IsAttributeConstruction /\ SpecOid(last.input) \in CountryCodeOids)
    => /\ Len(last.input.value.chars) = 2
            => /\ last.res.ok
               /\ self.val = AttrModel(SpecOid(last.input), last.input.value.chars)
       /\ Len(last.input.value.chars) # 2
            => /\ FailsWith(last.res, <<>>, last.input.value.chars
                                           \o <<": Must have exactly two characters">>)
               /\ self.cls = "None"
       /\ last.res = NameAttributeModel_validate(WithDottedOid(last.input), <<>>)

\* jurisdiction-country-name, given as a handle, was refused a value of 3
\* characters
C2_Witness ==
    /\ IsAttributeConstruction
    /\ last.input.oid = PyOid(JURISDICTION_COUNTRY_NAME)
    /\ Len(last.input.value.chars) = 3
    /\ ~last.res.ok

\* C3: NameAttributeModel with the OID common-name succeeds exactly when the
\* value has 1 to 64 characters; a length of 0 or above 64 fails with
\* "2.5.4.3 length must be >= 1 and <= 64, but it was <len>", for a handle
\* and for the dotted string alike; a value of any length is accepted for
\* every valid OID that is neither common-name nor a country code.
C3_CommonNameLength ==
    /\ (IsAttributeConstruction /\ SpecOid(last.input) = CommonNameOid)
       => /\ (1 <= Len(last.input.value.chars) /\ Len(last.input.value.chars) <= 64)
               => /\ last.res.ok
                  /\ self.val = AttrModel(CommonNameOid, last.input.value.chars)
          /\ (Len(last.input.value.chars) < 1 \/ Len(last.input.value.chars) > 64)
               => /\ FailsWith(last.res, <<>>,
                               <<"2", ".", "5", ".", "4", ".", "3">> \o <<" length must be >= 1 and <= 64, but it was ">>
                                   \o Decimal(Len(last.input.value.chars)))
                  /\ self.cls = "None"
          /\ last.res = NameAttributeModel_validate(WithDottedOid(last.input), <<>>)
    /\ (/\ IsAttributeConstruction
        /\ ObjectIdentifier(SpecOid(last.input)).ok
        /\ SpecOid(last.input) \notin CountryCodeOids \cup {CommonNameOid})
       => /\ last.res.ok
          /\ self.val = AttrModel(SpecOid(last.input), last.input.value.chars)

\* common-name, given as a handle, was refused a value of 65 characters
C3_Witness ==
    /\ IsAttributeConstruction
    /\ last.input.oid = PyOid(COMMON_NAME)
    /\ Len(last.input.value.chars) = 65
    /\ FailsWith(last.res, <<>>, <<"2", ".", "5", ".", "4", ".", "3">>
                     \o <<" length must be >= 1 and <= 64, but it was ">> \o <<"6", "5">>)

\* text is base64 as an encoder writes it: whole quads of alphabet
\* characters, at most two pad characters at the very end, and no bit set
\* in the last data character beyond the bytes encoded
IsCanonicalB64(v) ==
    /\ Len(v) % 4 = 0
    /\ \A i \in 1..Len(v) : i <= Len(v) - 2 => IsB64Char(v[i])
    /\ Len(v) > 0 =>
         /\ IsB64Char(v[Len(v) - 1]) \/ (v[Len(v) - 1] = "=" /\ v[Len(v)] = "=")
         /\ IsB64Char(v[Len(v)]) \/ v[Len(v)] = "="
         /\ v[Len(v) - 1] = "=" => B64Value(v[Len(v) - 2]) % 16 = 0
         /\ (v[Len(v) - 1] # "=" /\ v[Len(v)] = "=") => B64Value(v[Len(v) - 1]) % 4 = 0

\* the instance is an attribute (a name) as its construction left it, and
\* its round trip through the native object was just made, the conversion
\* to the native object having succeeded
AttributeRoundTrip ==
    /\ last.op = "native_round_trip"
    /\ self.cls = "NameAttributeModel"
    /\ ~self.assigned
    /\ last.input.ok

NameRoundTrip ==
    /\ last.op = "native_round_trip"
    /\ self.cls = "NameModel"
    /\ ~self.assigned
    /\ last.input.ok

\* text is valid base64: whole quads of alphabet characters, the last quad
\* ending in at most two pad characters
IsValidBase64(v) ==
    /\ Len(v) % 4 = 0
    /\ \A i \in 1..Len(v) : i <= Len(v) - 2 => IsB64Char(v[i])
    /\ Len(v) > 0 =>
         /\ IsB64Char(v[Len(v) - 1]) \/ (v[Len(v) - 1] = "=" /\ v[Len(v)] = "=")
         /\ IsB64Char(v[Len(v)]) \/ v[Len(v)] = "="

\* C4, as claimed: a model made from m.cryptography equals m for every
\* constructed attribute m whose conversion succeeds, the stored value of a
\* unique identifier being base64 text.
C4_AsClaimed ==
    (AttributeRoundTrip
     /\ (self.val.oid = UniqueIdentifierOid => IsValidBase64(self.val.value)))
    => (last.res.ok /\ last.res.val = self.val)

\* C4, amended: a model made from m.cryptography has the oid of m; it equals
\* m exactly when m is no unique identifier or its value is canonical base64;
\* the value of a unique identifier comes back as the canonical encoding of
\* the bytes it decoded to.
C4_NativeRoundTrip ==
    AttributeRoundTrip
    => /\ last.res.ok
       /\ last.res.val.oid = self.val.oid
       /\ last.res.val = self.val
            <=> (self.val.oid = UniqueIdentifierOid => IsCanonicalB64(self.val.value))
       /\ self.val.oid = UniqueIdentifierOid
            => /\ last.input.val.type = "BitString"
               /\ last.input.val.value.py = "bytes"
               /\ last.res.val.value = b64encode(last.input.val.value.nums)
               /\ IsCanonicalB64(last.res.val.value)
       /\ self.val.oid # UniqueIdentifierOid => last.input.val.value = PyStr(self.val.value)

\* a unique identifier holding "YQ==" came back equal from its round trip
C4_Witness ==
    /\ AttributeRoundTrip
    /\ self.val = AttrModel(UniqueIdentifierOid, <<"Y", "Q", "=", "=">>)
    /\ last.input.val.value = PyBytes(<<97>>)
    /\ last.res.val = self.val

\* the operations that read an instance
ReadOps == {"cryptography", "native_round_trip", "json_round_trip", "getattr", "root",
            "len", "iter", "getitem"}

\* the length rules on an attribute, its oid being a valid OID
AttributeRules(a) ==
    /\ ObjectIdentifier(a.oid).ok
    /\ a.oid \in CountryCodeOids => Len(a.value) = 2
    /\ a.oid = CommonNameOid => (1 <= Len(a.value) /\ Len(a.value) <= 64)

\* the rules construction establishes on an instance
RulesHold(m) ==
    IF m.cls = "NameModel"
    THEN /\ \A i \in 1..Len(m.val) : AttributeRules(m.val[i])
         /\ ~RepeatsForbidden(OidsOfRoot(m.val))
    ELSE AttributeRules(m.val)

IsNativeOf(n, a) ==
    /\ n.py = "NameAttribute"
    /\ dotted_string(n.oid.nums) = a.oid
    /\ a.oid # UniqueIdentifierOid => n.value = PyStr(a.value)
    /\ a.oid = UniqueIdentifierOid => (n.value.py = "bytes" /\ n.type = "BitString")

\* C6, as claimed: a NameModel made from the native Name of a constructed
\* NameModel equals the original.
C6_AsClaimed == NameRoundTrip => (last.res.ok /\ last.res.val = self.val)

\* C6, amended: a NameModel holds the attributes of the list, or of the
\* native Name, it is built from in their order; its native Name holds the
\* converted attributes in the same order; the NameModel made from that Name
\* has the same OIDs in the same order and equals the original exactly when
\* every unique identifier in it holds canonical base64; len, iteration and
\* index i return n, the stored order and the i-th attribute; the empty list
\* is valid and converts to the empty Name.
C6_OrderPreserved ==
    /\ (last.op = "NameModel" /\ last.res.ok)
       => /\ Len(self.val) = Len(last.input.items)
          /\ \A i \in 1..Len(self.val) :
                self.val[i] = AttrModel(SpecOid(last.input.items[i]),
                                        last.input.items[i].value.chars)
    /\ (last.op = "NameModel" /\ last.input.items = <<>>)
       => (last.res.ok /\ self = Instance("NameModel", <<>>))
    /\ (last.op = "NameModel.model_validate" /\ last.res.ok)
       => /\ Len(self.val) = Len(last.input.items)
          /\ \A i \in 1..Len(self.val) : IsNativeOf(last.input.items[i], self.val[i])
    /\ (last.op = "cryptography" /\ self.cls = "NameModel" /\ ~self.assigned /\ last.res.ok)
       => /\ last.res.val.py = "Name"
          /\ Len(last.res.val.items) = Len(self.val)
          /\ \A i \in 1..Len(self.val) : IsNativeOf(last.res.val.items[i], self.val[i])
          /\ self.val = <<>> => last.res.val = Name(<<>>)
    /\ (last.op = "cryptography" /\ self.cls = "NameModel" /\ self.val = <<>>) => last.res.ok
    /\ NameRoundTrip
       => /\ last.res.ok
          /\ OidsOfRoot(last.res.val) = OidsOfRoot(self.val)
          /\ last.res.val = self.val
               <=> \A i \in 1..Len(self.val) :
                      self.val[i].oid = UniqueIdentifierOid
                          => IsCanonicalB64(self.val[i].value)
    /\ (last.op = "len" /\ self.cls = "NameModel") => last.res = Ok(Len(self.val))
    /\ (last.op = "iter" /\ self.cls = "NameModel") => last.res = Ok(self.val)
    /\ (/\ last.op = "getitem"
        /\ last.input.py = "int"
        /\ 0 <= last.input.start
        /\ last.input.start < Len(self.val))
       => last.res = Ok(self.val[last.input.start + 1])

\* a name of three attributes with three OIDs came back equal, in its
\* order, from its round trip
C6_Witness ==
    /\ NameRoundTrip
    /\ Len(self.val) = 3
    /\ self.val[1].oid # self.val[2].oid
    /\ self.val[2].oid # self.val[3].oid
    /\ self.val[1].oid # self.val[3].oid
    /\ last.res.val = self.val

\* the distinguished name of test_iterable, and the attributes of its
\* components in the order of the text
TestText == <<"C", "N", "=", "e", "x", "a", "m", "p", "l", "e", ".", "c", "o", "m", ",", "O", "U", "=", "E", "x", "a", "m", "p", "l", "e", "O", "r", "g", "U", "n", "i", "t", ",", "O", "=", "E", "x", "a", "m", "p", "l", "e", "O", "r", "g", ",", "S", "T", "=", "V", "i", "e", "n", "n", "a", ",", "C", "=", "A", "T">>

TestAttributes ==
    << AttrModel(<<"2", ".", "5", ".", "4", ".", "3">>, <<"e", "x", "a", "m", "p", "l", "e", ".", "c", "o", "m">>),
       AttrModel(<<"2", ".", "5", ".", "4", ".", "1", "1">>, <<"E", "x", "a", "m", "p", "l", "e", "O", "r", "g", "U", "n", "i", "t">>),
       AttrModel(<<"2", ".", "5", ".", "4", ".", "1", "0">>, <<"E", "x", "a", "m", "p", "l", "e", "O", "r", "g">>),
       AttrModel(<<"2", ".", "5", ".", "4", ".", "8">>, <<"V", "i", "e", "n", "n", "a">>),
       AttrModel(<<"2", ".", "5", ".", "4", ".", "6">>, <<"A", "T">>) >>

\* the number of commas in a text
Commas(text) == Cardinality({i \in 1..Len(text) : text[i] = ","})

\* the value of the k-th component of a text without escapes: what stands
\* between its first "=" and the next comma
ValueOfComponent(text, k) ==
    LET starts == {1} \cup {i + 1 : i \in {j \in 1..Len(text) : text[j] = ","}}
        s == CHOOSE p \in starts : Cardinality({q \in starts : q < p}) = k - 1
        e == Min({i \in s..Len(text) : text[i] = ","} \cup {Len(text) + 1})
        eq == Min({i \in s..Len(text) : text[i] = "="})
    IN  SubSeq(text, eq + 1, e - 1)

\* the instance is the name of TestText, in the reverse order of the text
IsTestName ==
    /\ self.cls = "NameModel"
    /\ self.val = [i \in 1..5 |-> TestAttributes[6 - i]]

\* C7: a NameModel made from an RFC4514 text of n single-valued components
\* holds n attributes, the components of the text reversed; for the text of
\* test_iterable the length is 5, index 0 is the C attribute, iteration
\* gives C, ST, O, OU, CN and the slice [4:] is the list of the CN attribute.
C7_Rfc4514Order ==
    /\ (last.op = "NameModel.model_validate_str" /\ last.res.ok /\ last.input.text # <<>>)
       => /\ Len(self.val) = Commas(last.input.text) + 1
          /\ \A i \in 1..Len(self.val) :
                self.val[i].value = ValueOfComponent(last.input.text, Len(self.val) + 1 - i)
    /\ (last.op = "NameModel.model_validate_str" /\ last.input.text = TestText)
       => (last.res.ok /\ IsTestName)
    /\ (IsTestName /\ last.op = "len") => last.res = Ok(5)
    /\ (IsTestName /\ last.op = "iter")
       => last.res = Ok(<<TestAttributes[5], TestAttributes[4], TestAttributes[3],
                          TestAttributes[2], TestAttributes[1]>>)
    /\ (IsTestName /\ last.op = "getitem" /\ last.input = IntItem(0))
       => last.res = Ok(TestAttributes[5])
    /\ (IsTestName /\ last.op = "getitem" /\ last.input = SliceItem(TRUE, 4, FALSE, 0))
       => last.res = Ok(<<TestAttributes[1]>>)

\* the slice [4:] of the name of test_iterable was read
C7_Witness ==
    /\ IsTestName
    /\ last.op = "getitem"
    /\ last.input = SliceItem(TRUE, 4, FALSE, 0)
    /\ last.res = Ok(<<AttrModel(<<"2", ".", "5", ".", "4", ".", "3">>, <<"e", "x", "a", "m", "p", "l", "e", ".", "c", "o", "m">>)>>)

\* C8: construction of a unique identifier succeeds for any string value;
\* conversion of a unique identifier whose value is not valid base64 fails
\* instead of returning a native attribute; conversion of an attribute with
\* another OID returns its value undecoded.
C8_InvalidBase64Fails ==
    /\ (IsAttributeConstruction /\ SpecOid(last.input) = UniqueIdentifierOid)
       => (last.res.ok /\ self.val = AttrModel(UniqueIdentifierOid, last.input.value.chars))
    /\ (/\ last.op = "cryptography"
        /\ self.cls = "NameAttributeModel"
        /\ ~self.assigned
        /\ self.val.oid = UniqueIdentifierOid
        /\ ~IsValidBase64(self.val.value))
       => ~last.res.ok
    /\ (/\ last.op = "cryptography"
        /\ self.cls = "NameAttributeModel"
        /\ ~self.assigned
        /\ self.val.oid # UniqueIdentifierOid)
       => (last.res.ok /\ last.res.val.value = PyStr(self.val.value))

\* the instance is as its construction left it, and its round trip through
\* its JSON text was just made
JsonRoundTripMade == last.op = "json_round_trip" /\ self.cls # "None" /\ ~self.assigned

\* C9: parsing the JSON text of a constructed NameAttributeModel or
\* NameModel with the same class succeeds and gives an equal model: the same
\* attributes in the same order.
C9_JsonRoundTrip == JsonRoundTripMade => (last.res.ok /\ last.res.val = self.val)

\* a name of three attributes came back from its JSON text
C9_Witness ==
    /\ JsonRoundTripMade
    /\ self.cls = "NameModel"
    /\ Len(self.val) = 3
    /\ self.val[1] # self.val[2]
    /\ last.input[1] = "["
    /\ last.res.val = self.val

\* an attribute whose value holds a quote, a backslash or a line feed came
\* back from its JSON text
C9_WitnessEscapes ==
    /\ JsonRoundTripMade
    /\ self.cls = "NameAttributeModel"
    /\ \E i \in 1..Len(self.val.value) : self.val.value[i] \in {"\"", "\\", "\n"}
    /\ last.res.val = self.val

\* the least index at which an OID outside the allow-list occurs again
FirstRepeat(oids) ==
    Min({j \in 1..Len(oids) : oids[j] \notin AllowList /\ \E i \in 1..(j - 1) : oids[i] = oids[j]})

\* C10: when OIDs outside the allow-list are repeated in a list of valid
\* attribute specifications, NameModel reports exactly one error, at the
\* root, naming the OID whose repeated occurrence has the least index, with
\* the message "Name attribute of type <oid> must not occur more then once.".
C10_FirstViolationWins ==
    (/\ last.op = "NameModel"
     /\ IndividuallyValid(last.input.items)
     /\ RepeatsForbidden(OidsOfSpecs(last.input.items)))
    => /\ Len(last.res.errors) = 1
       /\ FailsWith(last.res, <<>>,
                    <<"Name attribute of type ">>
                        \o OidsOfSpecs(last.input.items)[FirstRepeat(OidsOfSpecs(last.input.items))]
                        \o <<" must not occur more then once.">>)
       /\ self.cls = "None"

\* a list with the OIDs A, B, B, A was refused with the error naming B
C10_Witness ==
    /\ last.op = "NameModel"
    /\ IndividuallyValid(last.input.items)
    /\ Len(last.input.items) = 4
    /\ SpecOid(last.input.items[1]) = SpecOid(last.input.items[4])
    /\ SpecOid(last.input.items[2]) = SpecOid(last.input.items[3])
    /\ SpecOid(last.input.items[1]) # SpecOid(last.input.items[2])
    /\ SpecOid(last.input.items[1]) \notin AllowList
    /\ SpecOid(last.input.items[2]) \notin AllowList
    /\ FailsWith(last.res, <<>>, DuplicateMessage(SpecOid(last.input.items[2])))

\* the location of the attribute at position i of a list
IndexLoc(i) == <<ToString(i - 1)>>

\* the errors the specification d (an OID and a str value) is refused with
\* on its own, located under loc: a malformed OID string alone, at the field
\* oid; otherwise the length rule it breaks, at the attribute; none when it
\* is valid
ExpectedErrors(d, loc) ==
    IF d.oid.py = "str" /\ ~ObjectIdentifier(d.oid.chars).ok
    THEN <<ValueErrorAt(loc \o <<"oid">>, d.oid.chars \o <<": Invalid object identifier">>)>>
    ELSE IF SpecOid(d) \in CountryCodeOids /\ Len(d.value.chars) # 2
    THEN <<ValueErrorAt(loc, d.value.chars \o <<": Must have exactly two characters">>)>>
    ELSE IF SpecOid(d) = CommonNameOid /\ (Len(d.value.chars) < 1 \/ Len(d.value.chars) > 64)
    THEN <<ValueErrorAt(loc, <<"2", ".", "5", ".", "4", ".", "3">> \o <<" length must be >= 1 and <= 64, but it was ">>
                                 \o Decimal(Len(d.value.chars)))>>
    ELSE <<>>

\* the errors of the attributes of a list, each under its index, in the
\* order of the list
ExpectedItemErrors(items) ==
    Concat([i \in 1..Len(items) |-> ExpectedErrors(items[i], IndexLoc(i))])

\* C11: validation runs in phases and a later phase never runs after an
\* earlier one failed.  An attribute with a malformed OID string fails with
\* exactly one error, at the field oid, with the message "<value>: Invalid
\* object identifier", and with no error of a length rule; a length-rule
\* error is located at the attribute itself; a list with an attribute that
\* fails on its own is refused with the errors of its attributes, each under
\* its list index, and without the duplicate error; a failed construction
\* leaves no instance.
C11_PhasesInOrder ==
    /\ (IsAttributeConstruction /\ last.input.oid.py = "str"
            /\ ~ObjectIdentifier(last.input.oid.chars).ok)
       => /\ FailsWith(last.res, <<"oid">>,
                       last.input.oid.chars \o <<": Invalid object identifier">>)
          /\ self.cls = "None"
    /\ IsAttributeConstruction
       => /\ last.res.errors = ExpectedErrors(last.input, <<>>)
          /\ last.res.ok <=> ExpectedErrors(last.input, <<>>) = <<>>
    /\ (IsAttributeConstruction /\ ~last.res.ok /\ ObjectIdentifier(SpecOid(last.input)).ok)
       => (Len(last.res.errors) = 1 /\ last.res.errors[1].loc = <<>>)
    /\ (last.op = "NameModel" /\ ~IndividuallyValid(last.input.items))
       => /\ ~last.res.ok
          /\ self.cls = "None"
          /\ last.res.errors = ExpectedItemErrors(last.input.items)
          /\ \A k \in 1..Len(last.res.errors) :
                /\ last.res.errors[k].loc # <<>>
                /\ \E i \in 1..Len(last.input.items) :
                      /\ last.res.errors[k].loc[1] = IndexLoc(i)[1]
                      /\ ~NameAttributeModel_validate(last.input.items[i], <<>>).ok
    /\ (last.op = "NameModel" /\ IndividuallyValid(last.input.items))
       => \A k \in 1..Len(last.res.errors) : last.res.errors[k].loc = <<>>
    /\ last.op \in Constructors
       => /\ last.res.ok <=> self.cls # "None"
          /\ last.res.ok => self.val = last.res.val

\* a list that repeats the common name around an attribute with a malformed
\* OID was refused with the one error of that attribute, at its index
C11_Witness ==
    /\ last.op = "NameModel"
    /\ Len(last.input.items) = 3
    /\ SpecOid(last.input.items[1]) = CommonNameOid
    /\ SpecOid(last.input.items[3]) = CommonNameOid
    /\ IndividuallyValid(<<last.input.items[1], last.input.items[3]>>)
    /\ ~ObjectIdentifier(SpecOid(last.input.items[2])).ok
    /\ last.res.errors = <<ValueErrorAt(<<"1", "oid">>,
                              <<"f", "o", "o">> \o <<": Invalid object identifier">>)>>
    /\ self.cls = "None"

\* an attribute with the malformed OID "foo" was refused at the field oid
C11_WitnessAttribute ==
    /\ IsAttributeConstruction
    /\ last.input.oid = PyStr(<<"f", "o", "o">>)
    /\ FailsWith(last.res, <<"oid">>, <<"f", "o", "o">> \o <<": Invalid object identifier">>)

====
